---- MODULE Spec2Model ----
(***************************************************************************)
(* A model of src/util.c of apsw: the reentrancy guard macros (CHECK_USE,  *)
(* CHECK_CLOSED, APSW_BEGIN_ALLOW_THREADS, APSW_END_ALLOW_THREADS), the    *)
(* unraisable-exception reporter apsw_write_unraiseable, and the two value *)
(* marshalers convert_value_to_pyobject and convert_column_to_pyobject.    *)
(*                                                                         *)
(* The three parts do not share state.  Each has a specification of its    *)
(* own: Spec (the guard; FairSpec adds the scheduling's fairness),         *)
(* SpecReporter and SpecMarshal.                                           *)
(***************************************************************************)
EXTENDS Integers, Sequences, FiniteSets, TLC

(***************************************************************************)
(* Bounds of the model.                                                    *)
(***************************************************************************)
NThreads == 3
MaxFrames == 3
MaxOrigTb == 2
MaxBytes == 2
MaxTag == 6

Threads == 1..NThreads
NoThread == 0

VARIABLES
  \* ---- guard: one guarded object (self) and its owning connection ----
  pc,           \* pc[t]: where thread t is in its method call
  gil,          \* holder of the interpreter's global lock, or NoThread
  inuse,        \* self->inuse
  db,           \* connection->db is non-NULL
  pyerr,        \* pyerr[t]: thread t's ambient error indicator
  engineCalled, \* engineCalled[t]: the current call of t reached the engine
  assertFailed, \* an assert of BEGIN/END_ALLOW_THREADS has failed
  \* ---- reporter: one call of apsw_write_unraiseable(hookobject) ----
  r_pc,             \* position in the function
  hookobject,       \* the argument is non-NULL
  attrFound,        \* input: hookobject has an excepthook attribute
  customOk,         \* input: the hook holder's excepthook returns (else raises)
  sysFound,         \* input: sys.excepthook exists
  sysOk,            \* input: sys.excepthook returns (else raises)
  nframes,          \* input: depth of the thread's call stack
  origTb,           \* input: the trace the exception had on entry
  frame,            \* the loop variable (0 is NULL)
  curexc_type,      \* ambient error indicator of the thread
  curexc_value,
  curexc_traceback, \* ambient trace, a sequence of frames, head first
  err_type, err_value, err_traceback, \* the locals filled by PyErr_Fetch
  fetched_tb,       \* the frames of the object err_traceback points to
  excepthook, result,                 \* the locals
  held,             \* held[o]: references to o the function owns
  calls,            \* the handlers invoked so far, in order
  \* ---- marshalers: one value handle and one row of a statement ----
  value,            \* input: the sqlite3_value
  stmt, col,        \* input: the statement's current row and a column of it
  faultValue,       \* input: APSW_FAULT_INJECT(UnknownValueType) fires
  faultColumn,      \* input: APSW_FAULT_INJECT(UnknownColumnType) fires
  PY_MAJOR_VERSION, \* input: the build's Python
  longBits,         \* input: the build's width of long
  outValue,         \* what convert_value_to_pyobject returned
  outColumn         \* what convert_column_to_pyobject returned

gvars == <<pc, gil, inuse, db, pyerr, engineCalled, assertFailed>>

rinputs == <<hookobject, attrFound, customOk, sysFound, sysOk, nframes, origTb>>

rvars == <<r_pc, rinputs, frame, curexc_type, curexc_value, curexc_traceback,
           err_type, err_value, err_traceback, fetched_tb, excepthook, result,
           held, calls>>

minputs == <<value, stmt, col, faultValue, faultColumn, PY_MAJOR_VERSION,
             longBits>>

mvars == <<minputs, outValue, outColumn>>

vars == <<gvars, rvars, mvars>>

(***************************************************************************)
(* The guard.                                                              *)
(***************************************************************************)
NoError == "none"
ExcThreadingViolation == "ThreadingViolation"
ExcConnectionClosed == "ConnectionClosed"
OtherError == "Other"

\* The checks a guarded method runs, in order, before it calls the engine.
enterGuarded == <<"check_closed", "check_use", "begin">>

StepAfter(s) ==
  LET i == CHOOSE k \in 1..Len(enterGuarded) : enterGuarded[k] = s
  IN  enterGuarded[i + 1]

\* A thread that runs Python code (and so holds the global lock) calls a
\* method of the object.  An error may already be pending in the thread.
Call(t) ==
  /\ pc[t] = "idle"
  /\ gil = NoThread
  /\ gil' = t
  /\ \E e \in {NoError, OtherError} : pyerr' = [pyerr EXCEPT ![t] = e]
  /\ pc' = [pc EXCEPT ![t] = enterGuarded[1]]
  /\ engineCalled' = [engineCalled EXCEPT ![t] = FALSE]
  /\ UNCHANGED <<inuse, db, assertFailed>>
  /\ UNCHANGED <<rvars, mvars>>

\* A CHECK_CLOSED written after the pattern of CHECK_USE: it raises only if
\* no error is pending.
CHECK_CLOSED_IfNoError(t) ==
  /\ pc[t] = "check_closed"
  /\ gil = t
  /\ IF ~db
       THEN /\ pyerr' = [pyerr EXCEPT ![t] =
                           IF pyerr[t] = NoError THEN ExcConnectionClosed
                                                 ELSE pyerr[t]]
            /\ pc' = [pc EXCEPT ![t] = "return_closed"]
       ELSE /\ pc' = [pc EXCEPT ![t] = StepAfter("check_closed")]
            /\ UNCHANGED pyerr
  /\ UNCHANGED <<gil, inuse, db, engineCalled, assertFailed>>
  /\ UNCHANGED <<rvars, mvars>>

\* CHECK_CLOSED(connection, e)
CHECK_CLOSED(t) ==
  /\ pc[t] = "check_closed"
  /\ gil = t
  /\ IF ~db
       THEN /\ pyerr' = [pyerr EXCEPT ![t] = ExcConnectionClosed]
            /\ pc' = [pc EXCEPT ![t] = "return_closed"]
       ELSE /\ pc' = [pc EXCEPT ![t] = StepAfter("check_closed")]
            /\ UNCHANGED pyerr
  /\ UNCHANGED <<gil, inuse, db, engineCalled, assertFailed>>
  /\ UNCHANGED <<rvars, mvars>>

\* A CHECK_USE that tests nothing.
CHECK_USE_NoCheck(t) ==
  /\ pc[t] = "check_use"
  /\ gil = t
  /\ pc' = [pc EXCEPT ![t] = StepAfter("check_use")]
  /\ UNCHANGED <<gil, inuse, db, pyerr, engineCalled, assertFailed>>
  /\ UNCHANGED <<rvars, mvars>>

\* A CHECK_USE without the PyErr_Occurred() test: it always raises.
CHECK_USE_AlwaysFormat(t) ==
  /\ pc[t] = "check_use"
  /\ gil = t
  /\ IF inuse # 0
       THEN /\ pyerr' = [pyerr EXCEPT ![t] = ExcThreadingViolation]
            /\ pc' = [pc EXCEPT ![t] = "return_use"]
       ELSE /\ pc' = [pc EXCEPT ![t] = StepAfter("check_use")]
            /\ UNCHANGED pyerr
  /\ UNCHANGED <<gil, inuse, db, engineCalled, assertFailed>>
  /\ UNCHANGED <<rvars, mvars>>

\* CHECK_USE(e)
CHECK_USE(t) ==
  /\ pc[t] = "check_use"
  /\ gil = t
  /\ IF inuse # 0
       THEN /\ pyerr' = [pyerr EXCEPT ![t] =
                           IF pyerr[t] = NoError THEN ExcThreadingViolation
                                                 ELSE pyerr[t]]
            /\ pc' = [pc EXCEPT ![t] = "return_use"]
       ELSE /\ pc' = [pc EXCEPT ![t] = StepAfter("check_use")]
            /\ UNCHANGED pyerr
  /\ UNCHANGED <<gil, inuse, db, engineCalled, assertFailed>>
  /\ UNCHANGED <<rvars, mvars>>

\* APSW_BEGIN_ALLOW_THREADS: assert, set the flag, give up the global lock.
APSW_BEGIN_ALLOW_THREADS(t) ==
  /\ pc[t] = "begin"
  /\ gil = t
  /\ assertFailed' = (assertFailed \/ inuse # 0)
  /\ inuse' = 1
  /\ gil' = NoThread
  /\ pc' = [pc EXCEPT ![t] = "engine"]
  /\ UNCHANGED <<db, pyerr, engineCalled>>
  /\ UNCHANGED <<rvars, mvars>>

\* The engine call between the two macros runs, without the lock, and returns.
EngineCall(t) ==
  /\ pc[t] = "engine"
  /\ engineCalled' = [engineCalled EXCEPT ![t] = TRUE]
  /\ pc' = [pc EXCEPT ![t] = "end"]
  /\ UNCHANGED <<gil, inuse, db, pyerr, assertFailed>>
  /\ UNCHANGED <<rvars, mvars>>

\* An APSW_END_ALLOW_THREADS that leaves the flag set.
APSW_END_ALLOW_THREADS_NoClear(t) ==
  /\ pc[t] = "end"
  /\ gil = NoThread
  /\ gil' = t
  /\ assertFailed' = (assertFailed \/ inuse # 1)
  /\ pc' = [pc EXCEPT ![t] = "return_ok"]
  /\ UNCHANGED <<inuse, db, pyerr, engineCalled>>
  /\ UNCHANGED <<rvars, mvars>>

\* APSW_END_ALLOW_THREADS: take the global lock again, assert, clear the flag.
APSW_END_ALLOW_THREADS(t) ==
  /\ pc[t] = "end"
  /\ gil = NoThread
  /\ gil' = t
  /\ assertFailed' = (assertFailed \/ inuse # 1)
  /\ inuse' = 0
  /\ pc' = [pc EXCEPT ![t] = "return_ok"]
  /\ UNCHANGED <<db, pyerr, engineCalled>>
  /\ UNCHANGED <<rvars, mvars>>

\* The method returns to its caller ("return e" of a failed check, or the
\* end of the method); the thread later lets another thread run.
Return(t) ==
  /\ pc[t] \in {"return_ok", "return_use", "return_closed"}
  /\ gil = t
  /\ gil' = NoThread
  /\ pc' = [pc EXCEPT ![t] = "idle"]
  /\ pyerr' = [pyerr EXCEPT ![t] = NoError]
  /\ engineCalled' = [engineCalled EXCEPT ![t] = FALSE]
  /\ UNCHANGED <<inuse, db, assertFailed>>
  /\ UNCHANGED <<rvars, mvars>>

\* The owning connection's engine handle is released.
CloseConnection(t) ==
  /\ pc[t] = "idle"
  /\ gil = NoThread
  /\ db
  /\ db' = FALSE
  /\ UNCHANGED <<pc, gil, inuse, pyerr, engineCalled, assertFailed>>
  /\ UNCHANGED <<rvars, mvars>>

InitGuard ==
  /\ pc = [t \in Threads |-> "idle"]
  /\ gil = NoThread
  /\ inuse = 0
  /\ db = TRUE
  /\ pyerr = [t \in Threads |-> NoError]
  /\ engineCalled = [t \in Threads |-> FALSE]
  /\ assertFailed = FALSE

(***************************************************************************)
(* The unraisable-exception reporter, apsw_write_unraiseable(hookobject).  *)
(* Frames are numbered from the oldest (1) to the current one (nframes);   *)
(* frame->f_back of frame f is f - 1 and 0 is NULL.  A trace is the        *)
(* sequence of its entries' frames, tb_next order.                         *)
(***************************************************************************)
NULL == "NULL"

Objects == {"type", "value", "traceback", "custom_hook", "sys_hook",
            "custom_result", "sys_result"}

f_back(f) == f - 1

\* PyTraceBack_Here(f): a new entry for f becomes the head of the ambient trace.
PyTraceBack_Here(f, tb) == <<f>> \o tb

Py_INCREF(h, o) == [h EXCEPT ![o] = @ + 1]

Py_XDECREF(h, o) == IF o = NULL THEN h ELSE [h EXCEPT ![o] = @ - 1]

\* What a handler is called with: "err_traceback ? err_traceback : Py_None".
TraceArg == IF err_traceback = NULL THEN <<>> ELSE fetched_tb

Invocation(h, ok) ==
  [handler |-> h, ok |-> ok, errPending |-> curexc_type # NULL, tb |-> TraceArg]

\* A walk whose loop tests frame->f_back: it stops short of the oldest frame.
WalkFrames_StopsShort ==
  /\ r_pc = "walk"
  /\ IF frame # 0 /\ f_back(frame) # 0
       THEN /\ curexc_traceback' = PyTraceBack_Here(frame, curexc_traceback)
            /\ frame' = f_back(frame)
            /\ UNCHANGED r_pc
       ELSE /\ r_pc' = "fetch"
            /\ frame' = 0
            /\ UNCHANGED curexc_traceback
  /\ UNCHANGED <<rinputs, curexc_type, curexc_value, err_type, err_value,
                 err_traceback, fetched_tb, excepthook, result, held, calls>>
  /\ UNCHANGED <<gvars, mvars>>

\* lines 66-71: frame = PyThreadState_GET()->frame; while(frame) ...
WalkFrames ==
  /\ r_pc = "walk"
  /\ IF frame # 0
       THEN /\ curexc_traceback' = PyTraceBack_Here(frame, curexc_traceback)
            /\ frame' = f_back(frame)
            /\ UNCHANGED r_pc
       ELSE /\ r_pc' = "fetch"
            /\ UNCHANGED <<frame, curexc_traceback>>
  /\ UNCHANGED <<rinputs, curexc_type, curexc_value, err_type, err_value,
                 err_traceback, fetched_tb, excepthook, result, held, calls>>
  /\ UNCHANGED <<gvars, mvars>>

\* lines 74-75: PyErr_Fetch hands the ambient triple over (owned references)
\* and clears it; PyErr_NormalizeException instantiates a missing value.
FetchException ==
  /\ r_pc = "fetch"
  /\ err_type' = IF curexc_type = NULL THEN NULL ELSE "type"
  /\ err_value' = IF curexc_type = NULL THEN NULL ELSE "value"
  /\ err_traceback' = IF curexc_traceback = <<>> THEN NULL ELSE "traceback"
  /\ fetched_tb' = curexc_traceback
  /\ held' = [o \in Objects |->
                IF \/ o = "type" /\ curexc_type # NULL
                   \/ o = "value" /\ curexc_type # NULL
                   \/ o = "traceback" /\ curexc_traceback # <<>>
                  THEN held[o] + 1 ELSE held[o]]
  /\ curexc_type' = NULL
  /\ curexc_value' = NULL
  /\ curexc_traceback' = <<>>
  /\ r_pc' = "hook"
  /\ UNCHANGED <<rinputs, frame, excepthook, result, calls>>
  /\ UNCHANGED <<gvars, mvars>>

\* lines 77-81: if(hookobject) { excepthook=GetAttrString; PyErr_Clear(); ...
HookLookup ==
  /\ r_pc = "hook"
  /\ IF hookobject
       THEN /\ excepthook' = IF attrFound THEN "custom_hook" ELSE NULL
            /\ held' = IF attrFound THEN Py_INCREF(held, "custom_hook") ELSE held
               \* a failed lookup sets AttributeError, which line 80 clears
            /\ curexc_type' = NULL
            /\ curexc_value' = NULL
            /\ curexc_traceback' = <<>>
            /\ r_pc' = IF attrFound THEN "hook_call" ELSE "hook_release"
       ELSE /\ r_pc' = "sys"
            /\ UNCHANGED <<excepthook, held, curexc_type, curexc_value,
                           curexc_traceback>>
  /\ UNCHANGED <<rinputs, frame, err_type, err_value, err_traceback,
                 fetched_tb, result, calls>>
  /\ UNCHANGED <<gvars, mvars>>

\* A call of the hook holder's handler without the "goto finally": the chain
\* goes on after a success.
HookCall_NoGoto ==
  /\ r_pc = "hook_call"
  /\ calls' = Append(calls, Invocation("custom", customOk))
  /\ IF customOk
       THEN /\ result' = "custom_result"
            /\ held' = Py_INCREF(held, "custom_result")
            /\ UNCHANGED <<curexc_type, curexc_value>>
       ELSE /\ result' = NULL
            /\ curexc_type' = "hook_error"
            /\ curexc_value' = "hook_error"
            /\ UNCHANGED held
  /\ r_pc' = "hook_release"
  /\ UNCHANGED <<rinputs, frame, curexc_traceback, err_type, err_value,
                 err_traceback, fetched_tb, excepthook>>
  /\ UNCHANGED <<gvars, mvars>>

\* lines 83-85: result=PyEval_CallFunction(excepthook, ...); if(result) goto finally;
HookCall ==
  /\ r_pc = "hook_call"
  /\ calls' = Append(calls, Invocation("custom", customOk))
  /\ IF customOk
       THEN /\ result' = "custom_result"
            /\ held' = Py_INCREF(held, "custom_result")
            /\ r_pc' = "finally"
            /\ UNCHANGED <<curexc_type, curexc_value>>
       ELSE /\ result' = NULL
            /\ curexc_type' = "hook_error"
            /\ curexc_value' = "hook_error"
            /\ r_pc' = "hook_release"
            /\ UNCHANGED held
  /\ UNCHANGED <<rinputs, frame, curexc_traceback, err_type, err_value,
                 err_traceback, fetched_tb, excepthook>>
  /\ UNCHANGED <<gvars, mvars>>

\* The hook holder's handler is not released before the variable is reused.
HookRelease_Skip ==
  /\ r_pc = "hook_release"
  /\ r_pc' = "sys"
  /\ UNCHANGED <<rinputs, frame, curexc_type, curexc_value, curexc_traceback,
                 err_type, err_value, err_traceback, fetched_tb, excepthook,
                 result, held, calls>>
  /\ UNCHANGED <<gvars, mvars>>

\* line 87: Py_XDECREF(excepthook);
HookRelease ==
  /\ r_pc = "hook_release"
  /\ held' = Py_XDECREF(held, excepthook)
  /\ r_pc' = "sys"
  /\ UNCHANGED <<rinputs, frame, curexc_type, curexc_value, curexc_traceback,
                 err_type, err_value, err_traceback, fetched_tb, excepthook,
                 result, calls>>
  /\ UNCHANGED <<gvars, mvars>>

\* The lookup of sys.excepthook without the PyErr_Clear() of line 94.
SysLookup_NoClear ==
  /\ r_pc = "sys"
  /\ excepthook' = IF sysFound THEN "sys_hook" ELSE NULL
  /\ held' = IF sysFound THEN Py_INCREF(held, "sys_hook") ELSE held
  /\ r_pc' = IF sysFound THEN "sys_call" ELSE "display"
  /\ UNCHANGED <<curexc_type, curexc_value, curexc_traceback>>
  /\ UNCHANGED <<rinputs, frame, err_type, err_value, err_traceback,
                 fetched_tb, result, calls>>
  /\ UNCHANGED <<gvars, mvars>>

\* lines 90-94: excepthook=PySys_GetObject("excepthook"); if(excepthook)
\* { Py_INCREF(excepthook); PyErr_Clear(); ...
SysLookup ==
  /\ r_pc = "sys"
  /\ excepthook' = IF sysFound THEN "sys_hook" ELSE NULL
  /\ IF sysFound
       THEN /\ held' = Py_INCREF(held, "sys_hook")
            /\ curexc_type' = NULL
            /\ curexc_value' = NULL
            /\ curexc_traceback' = <<>>
            /\ r_pc' = "sys_call"
       ELSE /\ r_pc' = "display"
            /\ UNCHANGED <<held, curexc_type, curexc_value, curexc_traceback>>
  /\ UNCHANGED <<rinputs, frame, err_type, err_value, err_traceback,
                 fetched_tb, result, calls>>
  /\ UNCHANGED <<gvars, mvars>>

\* lines 95-97: result=PyEval_CallFunction(excepthook, ...); if(result) goto finally;
SysCall ==
  /\ r_pc = "sys_call"
  /\ calls' = Append(calls, Invocation("sys", sysOk))
  /\ IF sysOk
       THEN /\ result' = "sys_result"
            /\ held' = Py_INCREF(held, "sys_result")
            /\ r_pc' = "finally"
            /\ UNCHANGED <<curexc_type, curexc_value>>
       ELSE /\ result' = NULL
            /\ curexc_type' = "hook_error"
            /\ curexc_value' = "hook_error"
            /\ r_pc' = "display"
            /\ UNCHANGED held
  /\ UNCHANGED <<rinputs, frame, curexc_traceback, err_type, err_value,
                 err_traceback, fetched_tb, excepthook>>
  /\ UNCHANGED <<gvars, mvars>>

\* lines 100-102: PyErr_Clear(); PyErr_Display(err_type, err_value, err_traceback);
Display ==
  /\ r_pc = "display"
  /\ curexc_type' = NULL
  /\ curexc_value' = NULL
  /\ curexc_traceback' = <<>>
  /\ calls' = Append(calls, [handler |-> "display", ok |-> TRUE,
                             errPending |-> FALSE, tb |-> TraceArg])
  /\ r_pc' = "finally"
  /\ UNCHANGED <<rinputs, frame, err_type, err_value, err_traceback,
                 fetched_tb, excepthook, result, held>>
  /\ UNCHANGED <<gvars, mvars>>

\* lines 104-110: the five Py_XDECREFs and the last PyErr_Clear().
Finally ==
  /\ r_pc = "finally"
  /\ held' = Py_XDECREF(Py_XDECREF(Py_XDECREF(Py_XDECREF(Py_XDECREF(
               held, excepthook), result), err_traceback), err_value), err_type)
  /\ curexc_type' = NULL
  /\ curexc_value' = NULL
  /\ curexc_traceback' = <<>>
  /\ r_pc' = "returned"
  /\ UNCHANGED <<rinputs, frame, err_type, err_value, err_traceback,
                 fetched_tb, excepthook, result, calls>>
  /\ UNCHANGED <<gvars, mvars>>

apsw_write_unraiseable ==
  \/ WalkFrames
  \/ FetchException
  \/ HookLookup
  \/ HookCall
  \/ HookRelease
  \/ SysLookup
  \/ SysCall
  \/ Display
  \/ Finally

\* The trace an exception raised in frames that have since unwound carries:
\* entries for the k frames below the current one.
UnwoundTrace(n, k) == [i \in 1..k |-> n + i]

\* The state on entry: an exception may be in flight, with a trace or none.
InitReporter ==
  /\ r_pc = "walk"
  /\ hookobject \in BOOLEAN
  /\ attrFound \in BOOLEAN
  /\ customOk \in BOOLEAN
  /\ sysFound \in BOOLEAN
  /\ sysOk \in BOOLEAN
  /\ nframes \in 0..MaxFrames
  /\ \E k \in 0..MaxOrigTb : origTb = UnwoundTrace(nframes, k)
  /\ frame = nframes
  /\ curexc_type \in {NULL, "type"}
  /\ curexc_value = curexc_type
  /\ curexc_traceback = (IF curexc_type = NULL THEN <<>> ELSE origTb)
  /\ (curexc_type = NULL => origTb = <<>>)
  /\ err_type = NULL
  /\ err_value = NULL
  /\ err_traceback = NULL
  /\ fetched_tb = <<>>
  /\ excepthook = NULL
  /\ result = NULL
  /\ held = [o \in Objects |-> 0]
  /\ calls = <<>>

\* The reporter's variables while another part of the program is modelled.
IdleReporter ==
  /\ r_pc = "returned"
  /\ hookobject = FALSE
  /\ attrFound = FALSE
  /\ customOk = FALSE
  /\ sysFound = FALSE
  /\ sysOk = FALSE
  /\ nframes = 0
  /\ origTb = <<>>
  /\ frame = 0
  /\ curexc_type = NULL
  /\ curexc_value = NULL
  /\ curexc_traceback = <<>>
  /\ err_type = NULL
  /\ err_value = NULL
  /\ err_traceback = NULL
  /\ fetched_tb = <<>>
  /\ excepthook = NULL
  /\ result = NULL
  /\ held = [o \in Objects |-> 0]
  /\ calls = <<>>

IdleGuard ==
  /\ pc = [t \in Threads |-> "idle"]
  /\ gil = NoThread
  /\ inuse = 0
  /\ db = TRUE
  /\ pyerr = [t \in Threads |-> NoError]
  /\ engineCalled = [t \in Threads |-> FALSE]
  /\ assertFailed = FALSE

(***************************************************************************)
(***************************************************************************)
(* The value marshalers.                                                   *)
(*                                                                         *)
(* A sqlite3_int64 is kept at its width as four 16-bit limbs, most         *)
(* significant first, <<a3, a2, a1, a0>>, standing for                     *)
(* a3*2^48 + a2*2^32 + a1*2^16 + a0 with a3 in -2^15..2^15-1 and the other *)
(* limbs in 0..2^16-1.  Each value has one such form, so equality of       *)
(* values is equality of tuples and the order is the lexicographic one.    *)
(***************************************************************************)
Limb == 2^16

\* A C int widened to sqlite3_int64 (sign extension).
ToInt64(n) ==
  IF n < 0 THEN <<-1, Limb - 1, (n \div Limb) % Limb, n % Limb>>
           ELSE <<0, 0, (n \div Limb) % Limb, n % Limb>>

\* x <= y on sqlite3_int64
Int64LE(x, y) ==
  \/ x = y
  \/ \E i \in 1..4 : /\ x[i] < y[i]
                     /\ \A j \in 1..(i - 1) : x[j] = y[j]

APSW_INT32_MIN == (-2147483647-1)
APSW_INT32_MAX == 2147483647

SQLITE_INTEGER == 1
SQLITE_FLOAT == 2
SQLITE_TEXT == 3
SQLITE_BLOB == 4
SQLITE_NULL == 5

UnknownValueType == 123456
UnknownColumnType == 12348

\* (long)val, for a long of longBits bits: the low bits, sign extended.
CastLong(val) ==
  IF longBits = 64 THEN val
  ELSE IF val[3] >= Limb \div 2 THEN <<-1, Limb - 1, val[3], val[4]>>
                                ELSE <<0, 0, val[3], val[4]>>

PyInt_FromLong(l) == [kind |-> "int", value |-> l]

PyLong_FromLongLong(v) == [kind |-> "long", value |-> v]

PyFloat_FromDouble(d) == [kind |-> "float", value |-> d]

Py_None == [kind |-> "None"]

\* Decodes the size bytes at str as UTF-8 (the bytes of the model are ASCII,
\* NUL included: one character per byte).
convertutf8stringsize(str, size) ==
  [kind |-> "unicode", value |-> [i \in 1..size |-> str[i]]]

\* A byte sequence of the size bytes at ptr.
converttobytes(ptr, size) ==
  [kind |-> "bytes", value |-> [i \in 1..size |-> ptr[i]]]

\* A returned pointer: an object, or NULL.
NullObject == [kind |-> NULL]

\* The error indicator after the call.
NoException == [exc |-> NoError, coltype |-> 0]

Returned(obj) == [obj |-> obj, err |-> NoException]

\* PyErr_Format(APSWException, "Unknown sqlite column type %d!", coltype); return NULL;
UnknownType(coltype) ==
  [obj |-> NullObject, err |-> [exc |-> "APSWException", coltype |-> coltype]]

\* The accessors of a value handle.
sqlite3_value_type(v) == v.type
sqlite3_value_int64(v) == v.i64
sqlite3_value_double(v) == v.dbl
sqlite3_value_text(v) == v.bytes
sqlite3_value_blob(v) == v.bytes
sqlite3_value_bytes(v) == Len(v.bytes)

\* The accessors of column col (from 0) of the current row of stmt.
sqlite3_column_type(s, c) == s[c + 1].type
sqlite3_column_int64(s, c) == s[c + 1].i64
sqlite3_column_double(s, c) == s[c + 1].dbl
sqlite3_column_text(s, c) == s[c + 1].bytes
sqlite3_column_blob(s, c) == s[c + 1].bytes
sqlite3_column_bytes(s, c) == Len(s[c + 1].bytes)

\* A range test without its lower bound.
convert_value_to_pyobject_NoLowerBound(v, fault) ==
  LET coltype == IF fault THEN UnknownValueType ELSE sqlite3_value_type(v)
  IN  CASE coltype = SQLITE_INTEGER ->
             LET val == sqlite3_value_int64(v)
             IN  IF /\ PY_MAJOR_VERSION < 3
                    /\ Int64LE(val, ToInt64(APSW_INT32_MAX))
                   THEN Returned(PyInt_FromLong(CastLong(val)))
                   ELSE Returned(PyLong_FromLongLong(val))
        [] coltype = SQLITE_FLOAT ->
             Returned(PyFloat_FromDouble(sqlite3_value_double(v)))
        [] coltype = SQLITE_TEXT ->
             Returned(convertutf8stringsize(sqlite3_value_text(v),
                                            sqlite3_value_bytes(v)))
        [] coltype = SQLITE_NULL -> Returned(Py_None)
        [] coltype = SQLITE_BLOB ->
             Returned(converttobytes(sqlite3_value_blob(v),
                                     sqlite3_value_bytes(v)))
        [] OTHER -> UnknownType(coltype)

convert_value_to_pyobject(v, fault) ==
  LET coltype == IF fault THEN UnknownValueType ELSE sqlite3_value_type(v)
  IN  CASE coltype = SQLITE_INTEGER ->
             LET val == sqlite3_value_int64(v)
             IN  IF /\ PY_MAJOR_VERSION < 3
                    /\ Int64LE(ToInt64(APSW_INT32_MIN), val)
                    /\ Int64LE(val, ToInt64(APSW_INT32_MAX))
                   THEN Returned(PyInt_FromLong(CastLong(val)))
                   ELSE Returned(PyLong_FromLongLong(val))
        [] coltype = SQLITE_FLOAT ->
             Returned(PyFloat_FromDouble(sqlite3_value_double(v)))
        [] coltype = SQLITE_TEXT ->
             Returned(convertutf8stringsize(sqlite3_value_text(v),
                                            sqlite3_value_bytes(v)))
        [] coltype = SQLITE_NULL -> Returned(Py_None)
        [] coltype = SQLITE_BLOB ->
             Returned(converttobytes(sqlite3_value_blob(v),
                                     sqlite3_value_bytes(v)))
        [] OTHER -> UnknownType(coltype)

\* A switch whose default returns None instead of raising.
convert_column_to_pyobject_DefaultNone(s, c, fault) ==
  LET coltype == IF fault THEN UnknownColumnType ELSE sqlite3_column_type(s, c)
  IN  CASE coltype = SQLITE_INTEGER ->
             LET val == sqlite3_column_int64(s, c)
             IN  IF /\ PY_MAJOR_VERSION < 3
                    /\ Int64LE(ToInt64(APSW_INT32_MIN), val)
                    /\ Int64LE(val, ToInt64(APSW_INT32_MAX))
                   THEN Returned(PyInt_FromLong(CastLong(val)))
                   ELSE Returned(PyLong_FromLongLong(val))
        [] coltype = SQLITE_FLOAT ->
             Returned(PyFloat_FromDouble(sqlite3_column_double(s, c)))
        [] coltype = SQLITE_TEXT ->
             Returned(convertutf8stringsize(sqlite3_column_text(s, c),
                                            sqlite3_column_bytes(s, c)))
        [] coltype = SQLITE_NULL -> Returned(Py_None)
        [] coltype = SQLITE_BLOB ->
             Returned(converttobytes(sqlite3_column_blob(s, c),
                                     sqlite3_column_bytes(s, c)))
        [] OTHER -> Returned(Py_None)

convert_column_to_pyobject(s, c, fault) ==
  LET coltype == IF fault THEN UnknownColumnType ELSE sqlite3_column_type(s, c)
  IN  CASE coltype = SQLITE_INTEGER ->
             LET val == sqlite3_column_int64(s, c)
             IN  IF /\ PY_MAJOR_VERSION < 3
                    /\ Int64LE(ToInt64(APSW_INT32_MIN), val)
                    /\ Int64LE(val, ToInt64(APSW_INT32_MAX))
                   THEN Returned(PyInt_FromLong(CastLong(val)))
                   ELSE Returned(PyLong_FromLongLong(val))
        [] coltype = SQLITE_FLOAT ->
             Returned(PyFloat_FromDouble(sqlite3_column_double(s, c)))
        [] coltype = SQLITE_TEXT ->
             Returned(convertutf8stringsize(sqlite3_column_text(s, c),
                                            sqlite3_column_bytes(s, c)))
        [] coltype = SQLITE_NULL -> Returned(Py_None)
        [] coltype = SQLITE_BLOB ->
             Returned(converttobytes(sqlite3_column_blob(s, c),
                                     sqlite3_column_bytes(s, c)))
        [] OTHER -> UnknownType(coltype)

\* The function has not been called yet.
Pending == [obj |-> NullObject, err |-> [exc |-> "pending", coltype |-> 0]]

ConvertValue ==
  /\ outValue = Pending
  /\ outValue' = convert_value_to_pyobject(value, faultValue)
  /\ UNCHANGED <<minputs, outColumn>>
  /\ UNCHANGED <<gvars, rvars>>

ConvertColumn ==
  /\ outColumn = Pending
  /\ outColumn' = convert_column_to_pyobject(stmt, col, faultColumn)
  /\ UNCHANGED <<minputs, outValue>>
  /\ UNCHANGED <<gvars, rvars>>

\* The values the engine can hand over.
Int64Values ==
  {<<a3, a2, a1, a0>> : a3 \in {-(Limb \div 2), -1, 0, Limb \div 2 - 1},
                        a2 \in {0, 1, Limb - 1},
                        a1 \in {0, Limb \div 2 - 1, Limb \div 2, Limb - 1},
                        a0 \in {0, 1, Limb - 1}}

Doubles == {-1, 0, 1}

ByteStrings == UNION {[1..n -> {0, 65}] : n \in 0..MaxBytes}

Handle(type, i64, dbl, bytes) ==
  [type |-> type, i64 |-> i64, dbl |-> dbl, bytes |-> bytes]

Handles ==
  {Handle(SQLITE_INTEGER, i, 0, <<>>) : i \in Int64Values}
    \cup {Handle(SQLITE_FLOAT, ToInt64(0), d, <<>>) : d \in Doubles}
    \cup {Handle(SQLITE_TEXT, ToInt64(0), 0, b) : b \in ByteStrings}
    \cup {Handle(SQLITE_BLOB, ToInt64(0), 0, b) : b \in ByteStrings}
    \cup {Handle(t, ToInt64(0), 0, <<>>) :
            t \in (0..MaxTag) \ {SQLITE_INTEGER, SQLITE_FLOAT, SQLITE_TEXT,
                                 SQLITE_BLOB}}

\* What the row's other column holds.
OtherColumns ==
  {Handle(SQLITE_NULL, ToInt64(0), 0, <<>>),
   Handle(SQLITE_INTEGER, ToInt64(APSW_INT32_MAX), 0, <<>>)}

InitMarshal ==
  /\ value \in Handles
  /\ \E other \in OtherColumns : stmt \in {<<value, other>>, <<other, value>>}
  /\ col \in {0, 1}
  /\ faultValue \in BOOLEAN
  /\ faultColumn \in BOOLEAN
  /\ PY_MAJOR_VERSION \in {2, 3}
  /\ longBits \in {32, 64}
  /\ outValue = Pending
  /\ outColumn = Pending

IdleMarshal ==
  /\ value = Handle(SQLITE_NULL, ToInt64(0), 0, <<>>)
  /\ stmt = <<value, value>>
  /\ col = 0
  /\ faultValue = FALSE
  /\ faultColumn = FALSE
  /\ PY_MAJOR_VERSION = 3
  /\ longBits = 64
  /\ outValue = Pending
  /\ outColumn = Pending

(***************************************************************************)
(* The specifications.                                                     *)
(***************************************************************************)
Init == InitGuard /\ IdleReporter /\ IdleMarshal

Next ==
  \E t \in Threads :
    \/ Call(t)
    \/ CHECK_CLOSED(t)
    \/ CHECK_USE(t)
    \/ APSW_BEGIN_ALLOW_THREADS(t)
    \/ EngineCall(t)
    \/ APSW_END_ALLOW_THREADS(t)
    \/ Return(t)
    \/ CloseConnection(t)

Spec == Init /\ [][Next]_vars

InitR == IdleGuard /\ InitReporter /\ IdleMarshal

NextReporter == apsw_write_unraiseable

SpecReporter == InitR /\ [][NextReporter]_vars

InitM == IdleGuard /\ IdleReporter /\ InitMarshal

NextMarshal == ConvertValue \/ ConvertColumn

SpecMarshal == InitM /\ [][NextMarshal]_vars

\* A thread holding the global lock keeps running; a thread waiting for the
\* lock in Py_END_ALLOW_THREADS gets it once it is free often enough; the
\* engine call returns.
Fairness ==
  \A t \in Threads :
    /\ WF_vars(CHECK_CLOSED(t))
    /\ WF_vars(CHECK_USE(t))
    /\ WF_vars(APSW_BEGIN_ALLOW_THREADS(t))
    /\ WF_vars(EngineCall(t))
    /\ SF_vars(APSW_END_ALLOW_THREADS(t))
    /\ WF_vars(Return(t))

FairSpec == Spec /\ Fairness

(***************************************************************************)
(* The claims about the guard.                                             *)
(***************************************************************************)
\* Thread t is between APSW_BEGIN_ALLOW_THREADS and APSW_END_ALLOW_THREADS.
InGuardedRegion(t) == pc[t] \in {"engine", "end"}

\* C1: at most one thread is between APSW_BEGIN_ALLOW_THREADS and
\* APSW_END_ALLOW_THREADS for the object, and neither macro's assertion
\* (inuse==0 at BEGIN, inuse==1 at END) ever fails.
C1_MutualExclusion ==
  /\ Cardinality({t \in Threads : InGuardedRegion(t)}) <= 1
  /\ ~assertFailed

\* One thread is in the engine while another has tried to enter.
C1_Witness ==
  \E t, u \in Threads :
    /\ t # u
    /\ pc[t] = "engine"
    /\ pc[u] = "return_use"

\* C2, as stated: whenever the reentrancy check rejects an entry on a Busy
\* object the error kind is ThreadingViolation, no engine call was made and
\* the flag is still set, whatever error was pending at the check.
C2_AlwaysThreadingViolation ==
  \A t \in Threads :
    pc[t] = "return_use" =>
      /\ pyerr[t] = ExcThreadingViolation
      /\ ~engineCalled[t]
      /\ inuse = 1

\* C2, amended: the reentrancy check on a Busy object rejects in one step,
\* with the global lock held throughout (no blocking), without an engine call
\* and without changing the flag; the error kind is ThreadingViolation if no
\* error was pending at the check, and the pending error is left in place
\* otherwise.
C2_RejectsBusy ==
  /\ [](\A t \in Threads :
          /\ pc[t] = "check_use" => ENABLED CHECK_USE(t)
          /\ pc[t] = "return_use" =>
               /\ pyerr[t] \in {ExcThreadingViolation, OtherError}
               /\ ~engineCalled[t]
               /\ inuse = 1
               /\ gil = t)
  /\ [][\A t \in Threads :
          (pc[t] = "check_use" /\ inuse # 0 /\ pc'[t] # pc[t]) =>
            /\ pc'[t] = "return_use"
            /\ pyerr'[t] = (IF pyerr[t] = NoError THEN ExcThreadingViolation
                                                  ELSE pyerr[t])
            /\ inuse' = inuse
            /\ engineCalled' = engineCalled
            /\ gil' = gil]_vars

\* An entry was rejected on a Busy object while another error was pending.
C2_Witness ==
  \E t \in Threads :
    /\ pc[t] = "return_use"
    /\ pyerr[t] = OtherError
    /\ inuse = 1

C9_EntryMatchedByRelease ==
  /\ [](/\ inuse \in {0, 1}
        /\ inuse = 1 <=> \E t \in Threads : InGuardedRegion(t)
        /\ \A t \in Threads : pc[t] = "return_ok" => inuse = 0)
  /\ [][inuse' # inuse =>
          \E t \in Threads :
            \/ /\ pc[t] = "begin" /\ pc'[t] = "engine"
               /\ inuse = 0 /\ inuse' = 1
            \/ /\ pc[t] = "end" /\ pc'[t] = "return_ok"
               /\ inuse = 1 /\ inuse' = 0]_vars
  /\ [][\A t \in Threads :
          (pc[t] = "check_use" /\ inuse = 0 /\ pc'[t] # pc[t]) =>
            pc'[t] = "begin"]_vars
  /\ \A t \in Threads :
       (pc[t] = "engine") ~> (pc[t] = "return_ok" /\ inuse = 0)

\* A thread has entered, made its engine call and released the flag.
C9_Witness ==
  \E t \in Threads :
    /\ pc[t] = "return_ok"
    /\ engineCalled[t]
    /\ inuse = 0

(***************************************************************************)
(* The claims about the reporter.                                          *)
(***************************************************************************)
Rank(h) == CASE h = "custom" -> 1 [] h = "sys" -> 2 [] h = "display" -> 3

Invoked(h) == \E i \in DOMAIN calls : calls[i].handler = h

Succeeded(h) == \E i \in DOMAIN calls : calls[i].handler = h /\ calls[i].ok

\* C4: the handlers are tried in the order hook holder's excepthook,
\* sys.excepthook, built-in display, each at most once; none is invoked after
\* one has succeeded; a handler is invoked only if it exists; and when the
\* function returns every existing handler before the first success has been
\* tried and the display has been invoked exactly when neither hook succeeded.
C4_HandlerOrder ==
  /\ \A i, j \in DOMAIN calls :
       i < j => Rank(calls[i].handler) < Rank(calls[j].handler)
  /\ \A i \in DOMAIN calls : i < Len(calls) => ~calls[i].ok
  /\ Invoked("custom") => hookobject /\ attrFound
  /\ Invoked("sys") => sysFound
  /\ \A i \in DOMAIN calls :
       calls[i].ok = CASE calls[i].handler = "custom" -> customOk
                       [] calls[i].handler = "sys" -> sysOk
                       [] OTHER -> TRUE
  /\ r_pc = "returned" =>
       /\ (hookobject /\ attrFound) => Invoked("custom")
       /\ (sysFound /\ ~Succeeded("custom")) => Invoked("sys")
       /\ Invoked("display") <=> ~(Succeeded("custom") \/ Succeeded("sys"))

\* Both hooks were tried and raised, and the display was invoked.
C4_Witness ==
  /\ r_pc = "returned"
  /\ Len(calls) = 3
  /\ ~calls[1].ok
  /\ ~calls[2].ok

\* C5: no error is pending when a handler is invoked, and none is pending
\* when the function has returned.
C5_NoErrorEscapes ==
  /\ \A i \in DOMAIN calls : ~calls[i].errPending
  /\ r_pc = "returned" => curexc_type = NULL /\ curexc_value = NULL

\* The function has returned after the hook holder's handler raised and
\* sys.excepthook was then invoked.
C5_Witness ==
  /\ r_pc = "returned"
  /\ Len(calls) >= 2
  /\ calls[1].handler = "custom"
  /\ ~calls[1].ok
  /\ calls[2].handler = "sys"

\* C6: the function never releases a reference it does not own, and when it
\* has returned it owns none: every reference it acquired has been released
\* exactly once.
C6_ReferencesBalanced ==
  /\ \A o \in Objects : held[o] >= 0
  /\ r_pc = "returned" => \A o \in Objects : held[o] = 0

\* The function has returned on the path where the hook holder's handler
\* raised and the excepthook variable was reused for sys.excepthook.
C6_Witness ==
  /\ r_pc = "returned"
  /\ hookobject /\ attrFound /\ ~customOk
  /\ excepthook = "sys_hook"
  /\ err_traceback # NULL

\* The trace with an entry for every frame of the call stack, oldest first,
\* followed by the entries the exception had on entry.
AugmentedTrace == [i \in 1..(nframes + Len(origTb)) |-> i]

\* C10: the walk adds one entry per active frame, the oldest frame ending up
\* first; each step of the walk moves to an older frame (so it ends); and the
\* exception is fetched only after the walk, so that every handler is called
\* with the augmented trace.
C10_TraceAugmented ==
  /\ [](/\ frame \in 0..nframes
        /\ r_pc = "walk" =>
             curexc_traceback =
               [i \in 1..(nframes - frame + Len(origTb)) |-> frame + i]
        /\ r_pc # "walk" => frame = 0
        /\ r_pc \notin {"walk", "fetch"} => fetched_tb = AugmentedTrace
        /\ \A i \in DOMAIN calls : calls[i].tb = AugmentedTrace)
  /\ [][(r_pc = "walk" /\ r_pc' = "walk") => frame' < frame]_vars

\* A handler has been called for an exception that came with a trace, on a
\* call stack of several frames.
C10_Witness ==
  /\ nframes >= 2
  /\ Len(origTb) >= 1
  /\ calls # <<>>
  /\ Len(calls[1].tb) = nframes + Len(origTb)

(***************************************************************************)
(* The claims about the marshalers.                                        *)
(***************************************************************************)
KnownTags == {SQLITE_INTEGER, SQLITE_FLOAT, SQLITE_TEXT, SQLITE_NULL,
              SQLITE_BLOB}

\* The kinds of object each tag is to be converted to.
KindsOf(tag) ==
  CASE tag = SQLITE_INTEGER -> {"int", "long"}
    [] tag = SQLITE_FLOAT -> {"float"}
    [] tag = SQLITE_TEXT -> {"unicode"}
    [] tag = SQLITE_NULL -> {"None"}
    [] tag = SQLITE_BLOB -> {"bytes"}

Called(out) == out.err.exc # "pending"

\* The outcome out of converting a value of tag tag: an object of the tag's
\* kind and no error, or no object and an error carrying the tag.
Dispatched(tag, nbytes, out) ==
  IF tag \in KnownTags
    THEN /\ out.obj.kind \in KindsOf(tag)
         /\ out.err = NoException
         /\ tag = SQLITE_BLOB => Len(out.obj.value) = nbytes
    ELSE /\ out.obj = NullObject
         /\ out.err = [exc |-> "APSWException", coltype |-> tag]

\* The column convert_column_to_pyobject is asked for.
Column == stmt[col + 1]

\* C7: with no fault injected, each of the two functions returns, for a tag
\* among integer, float, text, null and blob, one object of that tag's kind
\* and sets no error (None for null; for a blob a byte sequence of the blob's
\* length, so an empty one for an empty blob), and for any other tag returns
\* no object and sets an error carrying the tag; an injected fault has the
\* outcome of the unknown tag it substitutes; and the two functions agree on
\* equal handles.
C7_DispatchTotal ==
  /\ Called(outValue) =>
       Dispatched(IF faultValue THEN UnknownValueType ELSE value.type,
                  Len(value.bytes), outValue)
  /\ Called(outColumn) =>
       Dispatched(IF faultColumn THEN UnknownColumnType ELSE Column.type,
                  Len(Column.bytes), outColumn)
  /\ ( /\ Called(outValue) /\ Called(outColumn)
       /\ ~faultValue /\ ~faultColumn
       /\ Column = value ) => outValue = outColumn

\* Both functions have been called on a handle of an unknown tag.
C7_Witness ==
  /\ Called(outValue) /\ Called(outColumn)
  /\ ~faultValue /\ ~faultColumn
  /\ Column = value
  /\ value.type \notin KnownTags
  /\ outColumn.obj = NullObject

\* v is the sign extension of its low 32 bits: it is a signed 32-bit value.
FitsInt32(v) ==
  \/ v[1] = 0 /\ v[2] = 0 /\ v[3] < 2^15
  \/ v[1] = -1 /\ v[2] = 2^16 - 1 /\ v[3] >= 2^15

\* The outcome out of converting the integer v: the same number, as an int
\* only if v is a signed 32-bit value (and the build has int).
IntegerExact(v, out) ==
  /\ out.obj.kind \in {"int", "long"}
  /\ out.obj.value = v
  /\ out.obj.kind = "int" => FitsInt32(v) /\ PY_MAJOR_VERSION < 3
  /\ ~FitsInt32(v) => out.obj.kind = "long"

\* C8: the object made from an integer has the integer's value, whichever
\* path made it, and the fixed-width path is taken only for values from
\* APSW_INT32_MIN to APSW_INT32_MAX.
C8_IntegerExact ==
  /\ (Called(outValue) /\ ~faultValue /\ value.type = SQLITE_INTEGER) =>
       IntegerExact(value.i64, outValue)
  /\ (Called(outColumn) /\ ~faultColumn /\ Column.type = SQLITE_INTEGER) =>
       IntegerExact(Column.i64, outColumn)

\* On a build with int and a 32-bit long, 2147483648 has been converted to a
\* long and 2147483647 to an int.
C8_Witness ==
  /\ PY_MAJOR_VERSION = 2
  /\ longBits = 32
  /\ value.type = SQLITE_INTEGER
  /\ value.i64 = <<0, 0, 2^15, 0>>
  /\ outValue.obj.kind = "long"
  /\ Column.i64 = ToInt64(APSW_INT32_MAX)
  /\ outColumn.obj.kind = "int"

====
